---- MODULE Spec2Model ----
(***************************************************************************)
(* A model of the thread pool of src/src/lib.rs: the five shared atomic    *)
(* counters, the job channel with its receiver mutex, the worker run-loop  *)
(* of spawn_in_pool, the Sentinel that runs when a worker's job panics,    *)
(* and the public operations of ThreadPool (execute, set_num_threads,      *)
(* clone, drop).  Every atomic load, store and read-modify-write of the    *)
(* source is one step, so that all interleavings of the threads are        *)
(* explored.  Spec runs every operation from every handle; FairSpec adds   *)
(* fairness to one handle's executes; ShrinkSpec and GrowSpec are the      *)
(* barrier and endless-job scenarios of the repository's resize tests.     *)
(***************************************************************************)
EXTENDS Integers, Sequences, FiniteSets, TLC

\* ---------------------------------------------------------------- bounds
\* Largest thread count given to a constructor or to set_num_threads.
MaxThreads == 2
\* Number of calls of execute, set_num_threads and clone explored.
MaxCalls == 2
\* Number of jobs that may panic.
MaxPanics == 1
\* Number of ThreadPool handles (the original and its clones).
MaxHandles == 2
\* Number of execute calls explored under FairSpec.
MaxSubmits == 3
\* Number of jobs that may panic under FairSpec.
MaxCrashes == 2

\* Threads alive at once: the initial ones, plus what the calls can spawn (a
\* set_num_threads call at most MaxThreads, an execute call one).
Larger(a, b) == IF a >= b THEN a ELSE b
NumSlots == MaxThreads + Larger(MaxCalls * MaxThreads, MaxSubmits)
Slots == 1..NumSlots
Handles == 1..MaxHandles
JobIds == 1..(MaxCalls + MaxSubmits)

VARIABLES
    active_count,   \* ThreadPool.active_count  (thread_counter in the workers)
    spawned_count,  \* ThreadPool.spawned_count (thread_count_spawned)
    min_count,      \* ThreadPool.min_count
    max_count,      \* ThreadPool.max_count
    panic_count,    \* ThreadPool.panic_count
    queue,          \* jobs sent on the channel and not yet received
    lock,           \* holder of the Mutex around the Receiver (0: unlocked)
    w_pc,           \* position of each worker thread ("free": no such thread)
    w_cnt,          \* a worker's local thread_counter_val
    w_max,          \* a worker's local thread_count_max_val
    w_job,          \* the job a worker received (0: none)
    h_pc,           \* position of each handle ("gone": not cloned yet, or dropped)
    h_val,          \* a handle's local: the loaded spawned_count, or spawns left
    next_job,       \* number of jobs sent so far
    job_runs,       \* how many times each job was invoked
    job_done,       \* how each job's invocation ended
    resize_log,     \* history: <<old max, new max>> of each set_num_threads
    calls,          \* number of execute, set_num_threads and clone calls so far
    given,          \* history: <<num_threads, num_initial_threads>> given to new_pool
    rejected        \* history: the arguments of the set_num_threads calls that panicked

vars == <<active_count, spawned_count, min_count, max_count, panic_count,
          queue, lock, w_pc, w_cnt, w_max, w_job, h_pc, h_val,
          next_job, job_runs, job_done, resize_log, calls, given, rejected>>

counters == <<active_count, spawned_count, min_count, max_count, panic_count>>
workers == <<w_pc, w_cnt, w_max, w_job>>
handles == <<h_pc, h_val>>
ledger == <<next_job, job_runs, job_done>>
history == <<resize_log, calls, given, rejected>>

\* ------------------------------------------------------- pure helpers
\* new_pool without its third assertion.
new_pool_unchecked(num_threads, num_initial_threads) ==
    /\ num_threads >= 1
    /\ num_initial_threads >= 1

\* new_pool's three assertions.
new_pool_ok(num_threads, num_initial_threads) ==
    /\ num_threads >= 1
    /\ num_initial_threads >= 1
    /\ num_initial_threads <= num_threads

\* A new_pool that spawns as many threads as the maximum.
SpawnsAtStartMax(num_threads, num_initial_threads) == num_threads

\* Number of iterations of new_pool's spawning loop.
SpawnsAtStart(num_threads, num_initial_threads) == num_initial_threads

\* A set_num_threads without its assertion.
set_num_threads_unchecked(num_threads) == num_threads >= 0

\* set_num_threads's assertion.
set_num_threads_ok(num_threads) == num_threads >= 1

\* The value set_num_threads stores in max_count.
SwapMax(num_threads) == num_threads

\* A set_num_threads that spawns as many threads as the new max.
GrowToCount(num_threads, current_max) ==
    IF num_threads > current_max THEN num_threads ELSE 0

\* Number of threads set_num_threads spawns after the swap.
GrowBy(num_threads, current_max) ==
    IF num_threads > current_max THEN num_threads - current_max ELSE 0

\* An execute that still spawns when spawned has reached max.
ExecuteSpawnsAtMax(spawned_val, max_val) == spawned_val <= max_val

\* execute's test for spawning one more thread.
ExecuteSpawns(spawned_val, max_val) == spawned_val < max_val

\* A capacity test that counts the testing thread itself as active.
HasCapacityCountingSelf(thread_counter_val, thread_count_max_val) ==
    thread_counter_val + 1 < thread_count_max_val

\* The run-loop's test at the top of each iteration.
HasCapacity(thread_counter_val, thread_count_max_val) ==
    thread_counter_val < thread_count_max_val

\* The first conjunct of the run-loop's shrink test.
DynamicMode(thread_count_min_val, thread_count_max_val) ==
    thread_count_min_val # thread_count_max_val

\* A shrink test that lets a thread go at the floor.
AtLeastFloor(spawned_val, thread_count_min_val) ==
    spawned_val >= thread_count_min_val

\* The third conjunct of the run-loop's shrink test.
AboveFloor(spawned_val, thread_count_min_val) ==
    spawned_val > thread_count_min_val

\* A recv that returns the head of the channel and leaves it there.
RecvPeek(q) == q

\* What recv leaves in the channel after returning its head.
RecvRest(q) == Tail(q)

\* The counter after the run-loop's fetch_add around a job.
CounterAfterBegin(c) == c + 1

\* A run-loop that does not decrement the counter after a job.
CounterNotDecremented(c) == c

\* The counter after the run-loop's fetch_sub after a job.
CounterAfterEnd(c) == c - 1

\* A Sentinel that compares fetch_sub's result with the value it stored.
WasLastActiveNewValue(previous) == previous = 0

\* Sentinel::drop: fetch_sub returned 1 (this was the last active job).
WasLastActive(previous) == previous = 1

\* A Sentinel that does not count the panic.
PanicNotCounted(c) == c

\* Sentinel::drop: thread_count_panic.fetch_add(1) while panicking().
PanicCounted(c) == c + 1

\* A Sentinel that respawns only below the floor.
BelowFloor(spawned_val, min_val) == spawned_val < min_val

\* Sentinel::drop: spawned <= min.
AtOrBelowFloor(spawned_val, min_val) == spawned_val <= min_val

\* ------------------------------------------------------- derived state
FreeSlots == {w \in Slots : w_pc[w] = "free"}
LiveWorkers == {w \in Slots : w_pc[w] # "free"}
LiveHandles == {h \in Handles : h_pc[h] # "gone"}
\* recv returns Err once every Sender is dropped and the channel is empty.
Disconnected == LiveHandles = {}

Lowest(S) == CHOOSE x \in S : \A y \in S : x <= y

\* spawn_in_pool: a new thread starts at the top of the run-loop.  Threads are
\* interchangeable, so the new thread takes the lowest unused slot.
spawn_in_pool(pcs, avail) == [pcs EXCEPT ![Lowest(avail)] = "check"]

\* ------------------------------------------------------------- Init
\* new_pool (lib.rs 247-285).  When an assertion fails the call panics before
\* anything is created: there is no handle, no thread and no counter (the
\* counters read 0 here).
Init ==
    \E num_threads \in 0..MaxThreads, num_initial_threads \in 0..MaxThreads :
        /\ given = <<num_threads, num_initial_threads>>
        /\ rejected = {}
        /\ active_count = 0
        /\ panic_count = 0
        /\ queue = << >>
        /\ lock = 0
        /\ w_cnt = [w \in Slots |-> 0]
        /\ w_max = [w \in Slots |-> 0]
        /\ w_job = [w \in Slots |-> 0]
        /\ h_val = [h \in Handles |-> 0]
        /\ next_job = 0
        /\ job_runs = [j \in JobIds |-> 0]
        /\ job_done = [j \in JobIds |-> "no"]
        /\ resize_log = << >>
        /\ calls = 0
        /\ IF new_pool_ok(num_threads, num_initial_threads)
           THEN /\ spawned_count = SpawnsAtStart(num_threads, num_initial_threads)
                /\ min_count = num_initial_threads
                /\ max_count = num_threads
                /\ w_pc = [w \in Slots |->
                             IF w <= SpawnsAtStart(num_threads, num_initial_threads)
                             THEN "check" ELSE "free"]
                /\ h_pc = [h \in Handles |-> IF h = 1 THEN "idle" ELSE "gone"]
           ELSE /\ spawned_count = 0
                /\ min_count = 0
                /\ max_count = 0
                /\ w_pc = [w \in Slots |-> "free"]
                /\ h_pc = [h \in Handles |-> "gone"]

\* ------------------------------------------------- the worker run-loop
\* lib.rs 384: thread_counter.load(Acquire).
LoadCounter(w) ==
    /\ w_pc[w] = "check"
    /\ w_cnt' = [w_cnt EXCEPT ![w] = active_count]
    /\ w_pc' = [w_pc EXCEPT ![w] = "check_max"]
    /\ UNCHANGED <<counters, queue, lock, w_max, w_job, handles, ledger, history>>

\* lib.rs 385-387, 413-415: the loads of min and max (min is never written
\* after construction, so thread_count_min_val is min_count), then the test.
LoadMax(w) ==
    /\ w_pc[w] = "check_max"
    /\ w_max' = [w_max EXCEPT ![w] = max_count]
    /\ w_cnt' = [w_cnt EXCEPT ![w] = 0]
    /\ w_pc' = [w_pc EXCEPT ![w] =
                  IF HasCapacity(w_cnt[w], max_count) THEN "lock" ELSE "exit"]
    /\ UNCHANGED <<counters, queue, lock, w_job, handles, ledger, history>>

\* A Receiver that the workers share without its Mutex.
LockNotExclusive(w) ==
    /\ w_pc[w] = "lock"
    /\ lock' = w
    /\ w_pc' = [w_pc EXCEPT ![w] = "recv"]
    /\ UNCHANGED <<counters, queue, w_cnt, w_max, w_job, handles, ledger, history>>

\* lib.rs 391: jobs.lock().
Lock(w) ==
    /\ w_pc[w] = "lock"
    /\ lock = 0
    /\ lock' = w
    /\ w_pc' = [w_pc EXCEPT ![w] = "recv"]
    /\ UNCHANGED <<counters, queue, w_cnt, w_max, w_job, handles, ledger, history>>

\* lib.rs 392-396: recv returns a job; the guard is released at the end of
\* the block.
RecvJob(w) ==
    /\ w_pc[w] = "recv"
    /\ queue # << >>
    /\ w_job' = [w_job EXCEPT ![w] = Head(queue)]
    /\ queue' = RecvRest(queue)
    /\ lock' = 0
    /\ w_pc' = [w_pc EXCEPT ![w] = "begin"]
    /\ UNCHANGED <<counters, w_cnt, w_max, handles, ledger, history>>

\* lib.rs 392, 411: recv returns Err: every Sender is dropped and the channel
\* is empty.
RecvClosed(w) ==
    /\ w_pc[w] = "recv"
    /\ queue = << >>
    /\ Disconnected
    /\ lock' = 0
    /\ w_pc' = [w_pc EXCEPT ![w] = "exit"]
    /\ UNCHANGED <<counters, queue, w_cnt, w_max, w_job, handles, ledger, history>>

\* lib.rs 398: thread_counter.fetch_add(1).
BeginJob(w) ==
    /\ w_pc[w] = "begin"
    /\ active_count' = CounterAfterBegin(active_count)
    /\ w_pc' = [w_pc EXCEPT ![w] = "call"]
    /\ UNCHANGED <<spawned_count, min_count, max_count, panic_count, queue, lock,
                   w_cnt, w_max, w_job, handles, ledger, history>>

\* lib.rs 399-400, 403: job.call_box() returns; thread_counter.fetch_sub(1);
\* then the first conjunct of the shrink test, which reads only locals.
JobReturns(w) ==
    /\ w_pc[w] = "call"
    /\ job_runs' = [job_runs EXCEPT ![w_job[w]] = @ + 1]
    /\ job_done' = [job_done EXCEPT ![w_job[w]] = "returned"]
    /\ active_count' = CounterAfterEnd(active_count)
    /\ w_job' = [w_job EXCEPT ![w] = 0]
    /\ w_max' = [w_max EXCEPT ![w] = 0]
    /\ w_pc' = [w_pc EXCEPT ![w] =
                  IF DynamicMode(min_count, w_max[w]) THEN "shrink_counter" ELSE "check"]
    /\ UNCHANGED <<spawned_count, min_count, max_count, panic_count, queue, lock,
                   w_cnt, handles, next_job, history>>

\* lib.rs 404: thread_counter.load(Acquire) == 0.
ShrinkLoadCounter(w) ==
    /\ w_pc[w] = "shrink_counter"
    /\ w_pc' = [w_pc EXCEPT ![w] =
                  IF active_count = 0 THEN "shrink_spawned" ELSE "check"]
    /\ UNCHANGED <<counters, queue, lock, w_cnt, w_max, w_job, handles, ledger, history>>

\* lib.rs 405-406: thread_count_spawned.load(Acquire) > thread_count_min_val.
ShrinkLoadSpawned(w) ==
    /\ w_pc[w] = "shrink_spawned"
    /\ w_pc' = [w_pc EXCEPT ![w] =
                  IF AboveFloor(spawned_count, min_count) THEN "exit" ELSE "check"]
    /\ UNCHANGED <<counters, queue, lock, w_cnt, w_max, w_job, handles, ledger, history>>

\* lib.rs 418-419: thread_count_spawned.fetch_sub(1); sentinel.cancel(); the
\* thread ends.
ExitWorker(w) ==
    /\ w_pc[w] = "exit"
    /\ spawned_count' = spawned_count - 1
    /\ w_max' = [w_max EXCEPT ![w] = 0]
    /\ w_pc' = [w_pc EXCEPT ![w] = "free"]
    /\ UNCHANGED <<active_count, min_count, max_count, panic_count, queue, lock,
                   w_cnt, w_job, handles, ledger, history>>

\* ------------------------------------------------------ Sentinel::drop
\* lib.rs 399, 70-73: job.call_box() panics; the unwinding drops the armed
\* Sentinel, which counts the panic.
PanicStep(w) ==
    /\ w_pc[w] = "call"
    /\ job_runs' = [job_runs EXCEPT ![w_job[w]] = @ + 1]
    /\ job_done' = [job_done EXCEPT ![w_job[w]] = "panicked"]
    /\ panic_count' = PanicCounted(panic_count)
    /\ w_job' = [w_job EXCEPT ![w] = 0]
    /\ w_max' = [w_max EXCEPT ![w] = 0]
    /\ w_pc' = [w_pc EXCEPT ![w] = "drop_dec"]
    /\ UNCHANGED <<active_count, spawned_count, min_count, max_count, queue, lock,
                   w_cnt, handles, next_job, history>>

JobPanics(w) == panic_count < MaxPanics /\ PanicStep(w)

\* lib.rs 74: thread_counter.fetch_sub(1) == 1.
SentinelDec(w) ==
    /\ w_pc[w] = "drop_dec"
    /\ active_count' = active_count - 1
    /\ w_pc' = [w_pc EXCEPT ![w] =
                  IF WasLastActive(active_count) THEN "drop_load" ELSE "free"]
    /\ UNCHANGED <<spawned_count, min_count, max_count, panic_count, queue, lock,
                   w_cnt, w_max, w_job, handles, ledger, history>>

\* lib.rs 75-76: thread_count_spawned.load(Acquire) <= thread_count_min.load().
SentinelLoad(w) ==
    /\ w_pc[w] = "drop_load"
    /\ w_pc' = [w_pc EXCEPT ![w] =
                  IF AtOrBelowFloor(spawned_count, min_count) THEN "drop_spawn" ELSE "free"]
    /\ UNCHANGED <<counters, queue, lock, w_cnt, w_max, w_job, handles, ledger, history>>

\* lib.rs 77-84: thread_count_spawned.fetch_add(1); spawn_in_pool(..); the
\* panicked thread ends.
SentinelSpawn(w) ==
    /\ w_pc[w] = "drop_spawn"
    /\ spawned_count' = spawned_count + 1
    /\ w_pc' = spawn_in_pool([w_pc EXCEPT ![w] = "free"], FreeSlots \cup {w})
    /\ UNCHANGED <<active_count, min_count, max_count, panic_count, queue, lock,
                   w_cnt, w_max, w_job, handles, ledger, history>>

\* ------------------------------------------------- ThreadPool::execute
\* lib.rs 293: spawned_count.load(Acquire).
ExecuteLoadSpawned(h) ==
    /\ h_pc[h] = "idle"
    /\ calls' = calls + 1
    /\ h_val' = [h_val EXCEPT ![h] = spawned_count]
    /\ h_pc' = [h_pc EXCEPT ![h] = "ex_max"]
    /\ UNCHANGED <<counters, queue, lock, workers, ledger, resize_log, given, rejected>>

\* lib.rs 293: max_count.load(Relaxed), then the comparison.
ExecuteLoadMax(h) ==
    /\ h_pc[h] = "ex_max"
    /\ h_val' = [h_val EXCEPT ![h] = 0]
    /\ h_pc' = [h_pc EXCEPT ![h] =
                  IF ExecuteSpawns(h_val[h], max_count) THEN "ex_spawn" ELSE "ex_send"]
    /\ UNCHANGED <<counters, queue, lock, workers, ledger, history>>

\* lib.rs 294-301: spawned_count.fetch_add(1); spawn_in_pool(..).
ExecuteSpawn(h) ==
    /\ h_pc[h] = "ex_spawn"
    /\ spawned_count' = spawned_count + 1
    /\ w_pc' = spawn_in_pool(w_pc, FreeSlots)
    /\ h_pc' = [h_pc EXCEPT ![h] = "ex_send"]
    /\ UNCHANGED <<active_count, min_count, max_count, panic_count, queue, lock,
                   w_cnt, w_max, w_job, h_val, ledger, history>>

\* lib.rs 303: jobs.send(..).
ExecuteSend(h) ==
    /\ h_pc[h] = "ex_send"
    /\ next_job' = next_job + 1
    /\ queue' = Append(queue, next_job + 1)
    /\ h_pc' = [h_pc EXCEPT ![h] = "idle"]
    /\ UNCHANGED <<counters, lock, workers, h_val, job_runs, job_done, history>>

\* ----------------------------------------- ThreadPool::set_num_threads
\* A set_num_threads that keeps min <= max by lowering min with max.
ResizeSwapLoweringMin(h, num_threads) ==
    /\ h_pc[h] = "idle"
    /\ calls' = calls + 1
    /\ set_num_threads_ok(num_threads)
    /\ max_count' = SwapMax(num_threads)
    /\ min_count' = IF num_threads < min_count THEN num_threads ELSE min_count
    /\ resize_log' = Append(resize_log, <<max_count, num_threads>>)
    /\ h_val' = [h_val EXCEPT ![h] = GrowBy(num_threads, max_count)]
    /\ h_pc' = [h_pc EXCEPT ![h] =
                  IF GrowBy(num_threads, max_count) > 0 THEN "rs_spawn" ELSE "idle"]
    /\ UNCHANGED <<active_count, spawned_count, panic_count, queue, lock,
                   workers, ledger, given, rejected>>

\* lib.rs 342-344: the assertion, then max_count.swap(num_threads, Release).
ResizeSwap(h, num_threads) ==
    /\ h_pc[h] = "idle"
    /\ calls' = calls + 1
    /\ set_num_threads_ok(num_threads)
    /\ max_count' = SwapMax(num_threads)
    /\ resize_log' = Append(resize_log, <<max_count, num_threads>>)
    /\ h_val' = [h_val EXCEPT ![h] = GrowBy(num_threads, max_count)]
    /\ h_pc' = [h_pc EXCEPT ![h] =
                  IF GrowBy(num_threads, max_count) > 0 THEN "rs_spawn" ELSE "idle"]
    /\ UNCHANGED <<active_count, spawned_count, min_count, panic_count, queue, lock,
                   workers, ledger, given, rejected>>

\* lib.rs 342: the assertion fails and the call panics before the swap.  The
\* caller still holds the handle: it may catch the panic, or drop the handle
\* while unwinding (DropHandle).
ResizeRejected(h, num_threads) ==
    /\ h_pc[h] = "idle"
    /\ ~set_num_threads_ok(num_threads)
    /\ calls' = calls + 1
    /\ rejected' = rejected \cup {num_threads}
    /\ UNCHANGED <<counters, queue, lock, workers, handles, ledger, resize_log, given>>

\* lib.rs 346-355: one iteration of the spawning loop.
ResizeSpawn(h) ==
    /\ h_pc[h] = "rs_spawn"
    /\ spawned_count' = spawned_count + 1
    /\ w_pc' = spawn_in_pool(w_pc, FreeSlots)
    /\ h_val' = [h_val EXCEPT ![h] = @ - 1]
    /\ h_pc' = [h_pc EXCEPT ![h] = IF h_val[h] = 1 THEN "idle" ELSE "rs_spawn"]
    /\ UNCHANGED <<active_count, min_count, max_count, panic_count, queue, lock,
                   w_cnt, w_max, w_job, ledger, history>>

\* ------------------------------------------------------ clone and drop
\* lib.rs 156: #[derive(Clone)]: the clone holds its own Sender and the same
\* Arcs.
CloneHandle(h, g) ==
    /\ h_pc[h] = "idle"
    /\ h_pc[g] = "gone"
    /\ g = Lowest({x \in Handles : h_pc[x] = "gone"})
    /\ calls' = calls + 1
    /\ h_pc' = [h_pc EXCEPT ![g] = "idle"]
    /\ UNCHANGED <<counters, queue, lock, workers, h_val, ledger, resize_log,
                   given, rejected>>

\* lib.rs 160-163: dropping a handle drops its Sender.
DropHandle(h) ==
    /\ h_pc[h] = "idle"
    /\ h_pc' = [h_pc EXCEPT ![h] = "gone"]
    /\ UNCHANGED <<counters, queue, lock, workers, h_val, ledger, history>>

\* ------------------------------------------------------ specifications
\* The steps of a worker thread inside spawn_in_pool's closure.
RunLoopStep(w) ==
    \/ LoadCounter(w)
    \/ LoadMax(w)
    \/ Lock(w)
    \/ RecvJob(w)
    \/ RecvClosed(w)
    \/ BeginJob(w)
    \/ JobReturns(w)
    \/ ShrinkLoadCounter(w)
    \/ ShrinkLoadSpawned(w)
    \/ ExitWorker(w)

\* The steps of Sentinel::drop on a panicking worker thread.
SentinelStep(w) ==
    \/ SentinelDec(w)
    \/ SentinelLoad(w)
    \/ SentinelSpawn(w)

\* The steps that continue a call of execute.
ExecuteStep(h) ==
    \/ ExecuteLoadMax(h)
    \/ ExecuteSpawn(h)
    \/ ExecuteSend(h)

\* The steps that continue a call of execute or set_num_threads.
CallStep(h) ==
    \/ ExecuteStep(h)
    \/ ResizeSpawn(h)

\* A caller begins a call of execute, set_num_threads or clone.
Execute(h) == calls < MaxCalls /\ ExecuteLoadSpawned(h)
SetNumThreads(h, num_threads) == calls < MaxCalls /\ ResizeSwap(h, num_threads)
SetNumThreadsPanics(h, num_threads) ==
    calls < MaxCalls /\ ResizeRejected(h, num_threads)
Clone(h, g) == calls < MaxCalls /\ CloneHandle(h, g)

\* Every operation, from every handle, in every interleaving.
Next ==
    \/ \E w \in Slots : RunLoopStep(w)
    \/ \E w \in Slots : JobPanics(w)
    \/ \E w \in Slots : SentinelStep(w)
    \/ \E h \in Handles : CallStep(h)
    \/ \E h \in Handles : Execute(h)
    \/ \E h \in Handles, n \in 0..MaxThreads : SetNumThreads(h, n)
    \/ \E h \in Handles, n \in 0..MaxThreads : SetNumThreadsPanics(h, n)
    \/ \E h, g \in Handles : Clone(h, g)
    \/ \E h \in Handles : DropHandle(h)

Spec == Init /\ [][Next]_vars

\* The steps of a worker thread, panicking or not.
ThreadStep(w) == RunLoopStep(w) \/ SentinelStep(w)

\* With one handle and no set_num_threads call, execute spawns only while
\* spawned < max and a Sentinel only replaces its own thread, so the threads
\* fit in these slots (LiveSlotsSuffice).
LiveSlots == 1..(MaxThreads + 1)

\* A thread that can take a step eventually takes one: a running job returns
\* or panics, and an execute call that has begun runs to its end.  Nothing
\* forces the caller to begin a call or to drop the handle.
Fairness ==
    /\ \A w \in LiveSlots : WF_vars(ThreadStep(w))
    /\ WF_vars(ExecuteStep(1))

\* One handle submits jobs to a pool that is never resized; jobs return or
\* panic; the handle may be dropped.
JobCrashes(w) == panic_count < MaxCrashes /\ PanicStep(w)
Submit == calls < MaxSubmits /\ ExecuteLoadSpawned(1)

NextLive ==
    \/ \E w \in Slots : RunLoopStep(w)
    \/ \E w \in Slots : JobCrashes(w)
    \/ \E w \in Slots : SentinelStep(w)
    \/ ExecuteStep(1)
    \/ Submit
    \/ DropHandle(1)

FairSpec == Init /\ [][NextLive]_vars /\ Fairness

\* A spawn always finds an unused slot.
SlotsSuffice == FreeSlots # {}
LiveSlotsSuffice == LiveWorkers \subseteq LiveSlots /\ LiveHandles \subseteq {1}

\* ------------------------------------------- the barrier tests' scenario
\* test_shrink and test_shrink_then_grow_dynamic (lib.rs 598-676): the first
\* jobs wait on a barrier that the caller joins only after its
\* set_num_threads call, so none returns before it; the jobs still queued at
\* that call wait on a second barrier and do not return.
Released(j) == resize_log # << >> /\ j <= resize_log[1][1]

BarrierJobReturns(w) == Released(w_job[w]) /\ JobReturns(w)

\* The steps of the run-loop other than the job's return.
LoopStep(w) ==
    \/ LoadCounter(w)
    \/ LoadMax(w)
    \/ Lock(w)
    \/ RecvJob(w)
    \/ RecvClosed(w)
    \/ BeginJob(w)
    \/ ShrinkLoadCounter(w)
    \/ ShrinkLoadSpawned(w)
    \/ ExitWorker(w)

BarrierStep(w) == LoopStep(w) \/ BarrierJobReturns(w)

\* The caller submits jobs only before it resizes.
QueueJob == resize_log = << >> /\ calls < MaxSubmits /\ ExecuteLoadSpawned(1)

\* set_num_threads(num_threads) lowers max while max workers are each inside
\* a job and num_threads further jobs are queued.
ShrinkWhileBusy(num_threads) ==
    /\ resize_log = << >>
    /\ num_threads < max_count
    /\ active_count = max_count
    /\ Len(queue) = num_threads
    /\ ResizeSwap(1, num_threads)

NextShrink ==
    \/ \E w \in Slots : BarrierStep(w)
    \/ ExecuteStep(1)
    \/ QueueJob
    \/ \E n \in 1..MaxThreads : ShrinkWhileBusy(n)
    \/ DropHandle(1)

\* Every thread that can take a step eventually takes one; a released job
\* returns; nothing forces the caller to submit, to resize or to drop.
ShrinkFairness ==
    /\ \A w \in LiveSlots : WF_vars(BarrierStep(w))
    /\ WF_vars(ExecuteStep(1))

ShrinkSpec == Init /\ [][NextShrink]_vars /\ ShrinkFairness

\* ------------------------------ test_set_num_threads_increasing's scenario
\* lib.rs 434-455: one handle, kept to the end, grows the pool and submits
\* jobs that loop for ever, so no job returns, no worker reaches the shrink
\* test and recv never fails.
TakeStep(w) ==
    \/ LoadCounter(w)
    \/ LoadMax(w)
    \/ Lock(w)
    \/ RecvJob(w)
    \/ BeginJob(w)

SubmitEndless == next_job < MaxSubmits /\ ExecuteLoadSpawned(1)

\* The one set_num_threads(num_threads) call of the test, with num_threads
\* above the current max.
Grow(num_threads) ==
    /\ resize_log = << >>
    /\ num_threads > max_count
    /\ ResizeSwap(1, num_threads)

NextGrow ==
    \/ \E w \in Slots : TakeStep(w)
    \/ ExecuteStep(1)
    \/ SubmitEndless
    \/ \E n \in 1..(MaxThreads + 1) : Grow(n)
    \/ ResizeSpawn(1)

\* Every thread that can take a step eventually takes one, and a call of
\* execute or set_num_threads that has begun runs to its end.
GrowFairness ==
    /\ \A w \in LiveSlots : WF_vars(TakeStep(w))
    /\ WF_vars(ExecuteStep(1))
    /\ WF_vars(ResizeSpawn(1))

GrowSpec == Init /\ [][NextGrow]_vars /\ GrowFairness

\* ------------------------------------------------------------- claims
InQueue(j) == \E i \in 1..Len(queue) : queue[i] = j
Holders(j) == {w \in Slots : w_job[w] = j}
\* No set_num_threads call so far stored a max below the one it replaced.
MaxNeverLowered == \A i \in 1..Len(resize_log) : resize_log[i][2] >= resize_log[i][1]
\* No set_num_threads call so far stored a max below min.
NoResizeBelowMin == \A i \in 1..Len(resize_log) : resize_log[i][2] >= min_count

FixedPool == min_count = max_count
\* The jobs that FairSpec submits.
LiveJobs == 1..MaxSubmits
Returned(j) == job_done[j] = "returned"
Panicked(j) == job_done[j] = "panicked"

\* Job j was sent on the channel and no worker has invoked it yet.
Pending(j) == InQueue(j) \/ Holders(j) # {}

\* C1: every job submitted with execute is eventually invoked, unless every
\* handle is dropped first: no job stays pending for ever while a handle lives.
C1_EveryJobInvoked ==
    \A j \in LiveJobs : []<>(~(Pending(j) /\ LiveHandles # {}))

\* C3: in a fixed pool whose jobs all return, no job runs twice, no worker
\* leaves the run-loop while a handle is alive, and every submitted job runs
\* to completion: none stays pending for ever.
C3_FixedPoolRunsAll ==
    /\ [](FixedPool /\ panic_count = 0 =>
            /\ \A j \in JobIds : job_runs[j] <= 1
            /\ \A j \in JobIds : j <= next_job /\ ~Pending(j) =>
                                    Returned(j) /\ job_runs[j] = 1
            /\ LiveHandles # {} =>
                   /\ Cardinality(LiveWorkers) = min_count
                   /\ \A w \in Slots : w_pc[w] # "exit")
    /\ \A j \in LiveJobs : []<>(~(FixedPool /\ panic_count = 0 /\ Pending(j)))

\* A fixed pool has completed more jobs than it has workers, each once.
C3_Witness ==
    /\ FixedPool
    /\ panic_count = 0
    /\ next_job > min_count
    /\ \A j \in 1..next_job : Returned(j) /\ job_runs[j] = 1

\* C4: in a fixed pool of N workers, once N jobs have panicked the panic
\* count is N, and every job then pending completes: none stays pending for
\* ever, and it ends by returning (unless one more job panics).
C4_FixedPoolSurvivesNPanics ==
    /\ [](FixedPool /\ Cardinality({j \in JobIds : Panicked(j)}) = min_count =>
            /\ panic_count = min_count
            /\ \A j \in JobIds : j <= next_job /\ ~Pending(j) /\ ~Panicked(j) =>
                                    Returned(j) /\ job_runs[j] = 1)
    /\ \A j \in LiveJobs :
          []<>(~(FixedPool /\ panic_count = min_count /\ Pending(j)))

\* In a fixed pool of two workers the first two jobs panicked and a job
\* submitted after them has completed.
C4_Witness ==
    /\ FixedPool
    /\ min_count = 2
    /\ panic_count = 2
    /\ Panicked(1) /\ Panicked(2)
    /\ Returned(3)

\* C5: after any number of panics the pool still runs what is submitted: no
\* job stays pending for ever once a job has panicked, while a handle lives.
C5_PanicsNeverStopThePool ==
    \A j \in LiveJobs : []<>(~(panic_count >= 1 /\ Pending(j) /\ LiveHandles # {}))

\* C6: while a handle is alive the number of live worker threads is never
\* below min for ever.
C6_FloorRestored ==
    []<>(LiveHandles = {} \/ Cardinality(LiveWorkers) >= min_count)

\* C2: no job is invoked more than once: a job is in the channel, or held by
\* exactly one worker, or has been invoked once, and never two of these.
C2_AtMostOnce ==
    \A j \in JobIds :
        job_runs[j] + Cardinality(Holders(j)) + (IF InQueue(j) THEN 1 ELSE 0) <= 1

\* A job has been invoked while another worker holds a second job.
C2_Witness ==
    \E j \in JobIds : job_runs[j] = 1 /\ \E k \in JobIds \ {j} : Holders(k) # {}

\* C7: 0 <= active <= spawned in every reachable state.
C7_ActiveWithinSpawned == 0 <= active_count /\ active_count <= spawned_count

\* Every counted thread is inside a job, after a panic was recovered from.
C7_Witness == active_count = spawned_count /\ active_count >= 1 /\ panic_count >= 1

\* C8: spawned <= max in every reachable state of a pool whose max was never
\* lowered.
C8_SpawnedAtMostMax == MaxNeverLowered => spawned_count <= max_count

\* C9 as stated: min <= max in every reachable state.
C9_MinAtMostMax == min_count <= max_count

\* C9 as amended: min <= max holds after construction and for as long as no
\* set_num_threads call stored a max below min.
C9_MinAtMostMaxUnlessLowered == NoResizeBelowMin => min_count <= max_count

\* A set_num_threads call changed max to a value that is not below min.
C9_Witness ==
    /\ Len(resize_log) >= 1
    /\ resize_log[1][2] # resize_log[1][1]
    /\ NoResizeBelowMin

\* C10: while a handle is alive, spawned never drops below min.
C10_SpawnedAtLeastMin == LiveHandles # {} => spawned_count >= min_count

\* The pool was resized in the barrier scenario, from resize_log[1][1] workers
\* to resize_log[1][2].
Shrunk == resize_log # << >>
OldMax == resize_log[1][1]
NewMax == resize_log[1][2]
OriginalsFinished == \A j \in 1..OldMax : Returned(j)

\* C11: when set_num_threads lowers max from M to m while M workers are each
\* inside a job and m jobs are queued, active stays M until a job of the M
\* returns; once all M have returned active never exceeds m; and the pool
\* settles with m workers inside the queued jobs: while the handle is kept,
\* active = m for good, and in a pool constructed dynamic spawned = m.
C11_ShrinkSettles ==
    /\ [](Shrunk /\ (\A j \in 1..OldMax : ~Returned(j)) => active_count = OldMax)
    /\ [](Shrunk /\ OriginalsFinished => active_count <= NewMax)
    /\ <>[](Shrunk /\ LiveHandles # {} =>
               /\ active_count = NewMax
               /\ min_count < OldMax => spawned_count = NewMax)

\* The max stored by the latest set_num_threads call.
LastMax == resize_log[Len(resize_log)][2]

\* C12: a set_num_threads call that raises max stores the new max and, before
\* it returns, spawns exactly new max - old max workers: with no job submitted
\* yet, spawned has risen from its initial value by exactly the amount max has
\* risen, as many threads are alive, and none was spawned before the store;
\* and once as many endless jobs as the new max are submitted, active reaches
\* the new max.
C12_GrowSpawnsDifference ==
    /\ [](resize_log # << >> => max_count = LastMax)
    /\ [](resize_log # << >> /\ next_job = 0 /\ h_pc[1] = "idle" =>
             /\ spawned_count = min_count + (max_count - resize_log[1][1])
             /\ Cardinality(LiveWorkers) = spawned_count)
    /\ [][resize_log' # resize_log => spawned_count' = spawned_count]_vars
    /\ []<>(\/ resize_log = << >>
            \/ next_job < max_count
            \/ active_count = max_count)

\* A call raised max by two before any job was submitted, and later that many
\* jobs are running.
C12_Witness ==
    /\ resize_log # << >>
    /\ resize_log[1][2] = resize_log[1][1] + 2
    /\ active_count = max_count

\* Every handle is dropped, the channel is empty and every worker thread is
\* between jobs: idle at the top of the loop, or waiting for the lock or in recv.
ClosedWhileIdle ==
    /\ LiveHandles = {}
    /\ queue = << >>
    /\ \A w \in Slots : w_pc[w] \in {"free", "check", "check_max", "lock", "recv", "exit"}

\* C13: once the last handle is dropped with the workers idle or waiting for a
\* job, every worker exits and spawned reaches 0 and stays there, and no job
\* is invoked twice.
C13_DropDrainsPool ==
    /\ <>[](ClosedWhileIdle => spawned_count = 0 /\ LiveWorkers = {})
    /\ [](\A j \in JobIds : job_runs[j] <= 1)

\* C14: the panic count is exactly the number of jobs whose invocation
\* panicked: no other step (a job's return, a worker's exit, execute,
\* set_num_threads, clone, drop) changes it, it never decreases, and a panic
\* changes nothing of any handle: the callers' calls go on undisturbed.
C14_FailuresCountPanics ==
    /\ [](panic_count = Cardinality({j \in JobIds : Panicked(j)}))
    /\ [][panic_count' >= panic_count]_vars
    /\ [][panic_count' # panic_count => handles' = handles /\ queue' = queue]_vars

\* A job panicked, another returned, and after the last handle was dropped
\* every worker has left the run-loop.
C14_Witness ==
    /\ panic_count = 1
    /\ \E j \in JobIds : Returned(j)
    /\ LiveHandles = {}
    /\ LiveWorkers = {}

\* No pool exists: no handle, no worker thread, and nothing was ever done.
NoPool ==
    /\ LiveHandles = {}
    /\ LiveWorkers = {}
    /\ spawned_count = 0
    /\ active_count = 0
    /\ panic_count = 0
    /\ next_job = 0
    /\ calls = 0

\* C15: a call that violates a numeric precondition has no effect: new_pool
\* given a count of 0, an initial count of 0 or an initial count above the
\* count creates no pool and spawns no worker; set_num_threads(0) is never
\* applied, and the call that panics changes no counter, no worker, no handle
\* and nothing in the channel.
C15_InvalidCallsHaveNoEffect ==
    /\ [](given[1] = 0 \/ given[2] = 0 \/ given[2] > given[1] => NoPool)
    /\ [](\A i \in 1..Len(resize_log) : resize_log[i][2] # 0)
    /\ [](LiveHandles # {} => max_count # 0)
    /\ [][rejected' # rejected =>
            /\ 0 \in rejected'
            /\ UNCHANGED <<counters, queue, lock, workers, handles, ledger, resize_log>>]_vars

\* set_num_threads(0) was called on a pool that has a job in its channel.
C15_Witness ==
    /\ 0 \in rejected
    /\ queue # << >>
    /\ spawned_count >= 1

\* C16: a successful construction returns the stated pool: given a count M
\* and an initial count I with 1 <= I <= M (I = M for a fixed pool), as long as
\* the handle is kept and no call has been made, min = I, max = M, spawned = I
\* with I worker threads alive, active = 0 and the panic count is 0.
C16_ConstructedState ==
    (/\ 1 <= given[2]
     /\ given[2] <= given[1]
     /\ calls = 0
     /\ LiveHandles # {})
    => /\ min_count = given[2]
       /\ max_count = given[1]
       /\ spawned_count = given[2]
       /\ Cardinality(LiveWorkers) = given[2]
       /\ active_count = 0
       /\ panic_count = 0

\* A dynamic pool of at most two threads, one at first, whose worker is
\* waiting for its first job.
C16_Witness ==
    /\ given = <<2, 1>>
    /\ calls = 0
    /\ LiveHandles # {}
    /\ \E w \in Slots : w_pc[w] = "recv"

\* A step of a set_num_threads call: its swap, or one iteration of its loop.
ResizeStepTaken ==
    \/ resize_log' # resize_log
    \/ \E h \in Handles : h_pc[h] = "rs_spawn" /\ h_val'[h] # h_val[h]

\* C17: set_num_threads changes only max, and spawned when it grows the pool:
\* no step of it changes min, active or the panic count, removes a job from
\* the channel, or moves a worker thread that exists (running a job, waiting
\* for one, or anywhere else); its swap leaves spawned alone and its spawns
\* leave max alone; and min keeps the value it was constructed with.
C17_ResizeFrame ==
    /\ [][ResizeStepTaken =>
            /\ UNCHANGED <<min_count, active_count, panic_count, queue, lock>>
            /\ UNCHANGED <<w_job, w_cnt, w_max, ledger>>
            /\ \A w \in Slots : w_pc[w] # "free" => w_pc'[w] = w_pc[w]]_vars
    /\ [][resize_log' # resize_log => UNCHANGED <<spawned_count, w_pc>>]_vars
    /\ [][(\E h \in Handles : h_pc[h] = "rs_spawn" /\ h_val'[h] # h_val[h]) =>
            UNCHANGED max_count]_vars
    /\ [](1 <= given[2] /\ given[2] <= given[1] => min_count = given[2])

\* A fixed pool was resized below its size while a worker was inside a job.
C17_Witness ==
    /\ resize_log # << >>
    /\ max_count < min_count
    /\ \E w \in Slots : w_pc[w] = "call"

\* No thread is being spawned, is leaving the run-loop or is inside
\* Sentinel::drop.
NothingInFlight ==
    /\ \A w \in Slots : w_pc[w] \notin {"exit", "drop_dec", "drop_load", "drop_spawn"}
    /\ \A h \in Handles : h_pc[h] \notin {"ex_spawn", "rs_spawn"}

\* C18: spawned is the number of worker threads alive whenever no spawn, exit
\* or recovery is in flight: the Sentinel of a panicked worker takes that
\* worker out of spawned as well as out of active.
C18_SpawnedIsLiveThreads ==
    NothingInFlight => spawned_count = Cardinality(LiveWorkers)

\* Worker w takes a step from position pc.
Leaves(w, pc) == w_pc[w] = pc /\ w_pc'[w] # pc
\* The step starts no thread and ends the thread of w.
EndsWithoutSpawn(w) ==
    /\ spawned_count' = spawned_count
    /\ w_pc' = [w_pc EXCEPT ![w] = "free"]

Returns(w) == Leaves(w, "call") /\ job_done'[w_job[w]] = "returned"
\* Worker w moves to position pc and no other worker moves.
MovesTo(w, pc) == w_pc' = [w_pc EXCEPT ![w] = pc]

\* The worker's reads of active and of spawned in the shrink test, and where
\* each outcome leads.
ShrinkReads ==
    /\ \A w \in Slots : Leaves(w, "shrink_counter") =>
          MovesTo(w, IF active_count = 0 THEN "shrink_spawned" ELSE "check")
    /\ \A w \in Slots : Leaves(w, "shrink_spawned") =>
          MovesTo(w, IF spawned_count > min_count THEN "exit" ELSE "check")

\* C20 as stated: when a job returns, active is decremented and the worker
\* goes on to the rest of the shrink test exactly when min # max for the max
\* of that moment; it then exits exactly when it reads active = 0 and
\* spawned > min, and goes back to the capacity check otherwise.
C20_ShrinkOnCurrentMax ==
    /\ [][\A w \in Slots : Returns(w) =>
            /\ active_count' = active_count - 1
            /\ MovesTo(w, IF min_count # max_count THEN "shrink_counter" ELSE "check")]_vars
    /\ [][ShrinkReads]_vars

\* C20 as amended: the max of the shrink test is the one the worker loaded at
\* the top of the iteration, before it waited for the job; a pool constructed
\* with min = max and never resized never takes the shrink branch.
C20_ShrinkOnLoadedMax ==
    /\ [][\A w \in Slots : Leaves(w, "check_max") => w_max'[w] = max_count]_vars
    /\ [][\A w \in Slots : w_pc[w] \in {"lock", "recv", "begin", "call"} =>
            w_max'[w] = w_max[w] \/ Leaves(w, "call")]_vars
    /\ [][\A w \in Slots : Returns(w) =>
            /\ active_count' = active_count - 1
            /\ MovesTo(w, IF min_count # w_max[w] THEN "shrink_counter" ELSE "check")]_vars
    /\ [][ShrinkReads]_vars
    /\ [](given[1] = given[2] /\ resize_log = << >> =>
             \A w \in Slots : w_pc[w] \notin {"shrink_counter", "shrink_spawned"})

\* A worker is in the shrink test of a pool whose max was set equal to min
\* while the worker was inside its job.
C20_Witness ==
    /\ resize_log # << >>
    /\ min_count = max_count
    /\ \E w \in Slots : w_pc[w] = "shrink_spawned"

\* The workers inside the block that holds the MutexGuard (lib.rs 388-393).
InDequeue == {w \in Slots : w_pc[w] = "recv"}

\* C21: at most one worker is inside the dequeue block, and it is the holder
\* of the mutex; a worker that has received a job holds no mutex from then
\* until the job has ended, so whoever holds the mutex, blocked in recv or
\* not, a worker with a job can always start it and a running job can always
\* return.
C21_DequeueExclusive ==
    /\ Cardinality(InDequeue) <= 1
    /\ \A w \in Slots : w \in InDequeue <=> lock = w
    /\ \A w \in Slots : w_job[w] # 0 => lock # w
    /\ \A w \in Slots : w_pc[w] = "begin" => ENABLED BeginJob(w)
    /\ \A w \in Slots : w_pc[w] = "call" => ENABLED JobReturns(w)

\* One worker is blocked in recv on an empty channel, holding the mutex,
\* while another is inside a job.
C21_Witness ==
    /\ queue = << >>
    /\ LiveHandles # {}
    /\ InDequeue # {}
    /\ \E w \in Slots : w_pc[w] = "call"

Smaller(a, b) == IF a <= b THEN a ELSE b
\* The handle's call moves from position pc in this step.
CallLeaves(pc) == h_pc[1] = pc /\ h_pc'[1] # pc

\* C22: a call of execute spawns a thread only when the spawned it loaded is
\* below max at its comparison, and then exactly one, adding one to spawned;
\* it then sends the job and returns, and every call that has begun does so.
\* In a pool given a maximum M and an initial count I whose jobs never
\* return and which is not resized, after k calls spawned is min(I + k, M).
C22_ExecuteSpawnsOne ==
    /\ [][CallLeaves("ex_max") =>
            /\ h_pc'[1] = (IF h_val[1] < max_count THEN "ex_spawn" ELSE "ex_send")
            /\ UNCHANGED <<spawned_count, w_pc, queue>>]_vars
    /\ [][CallLeaves("ex_spawn") =>
            /\ h_pc'[1] = "ex_send"
            /\ spawned_count' = spawned_count + 1
            /\ \E v \in FreeSlots : w_pc' = [w_pc EXCEPT ![v] = "check"]
            /\ UNCHANGED queue]_vars
    /\ [][CallLeaves("ex_send") =>
            /\ h_pc'[1] = "idle"
            /\ next_job' = next_job + 1
            /\ queue' = Append(queue, next_job')
            /\ UNCHANGED <<spawned_count, w_pc>>]_vars
    /\ []<>(h_pc[1] \notin {"ex_max", "ex_spawn", "ex_send"})
    /\ [](resize_log = << >> /\ h_pc[1] = "idle" =>
             /\ calls = next_job
             /\ spawned_count = Smaller(given[2] + next_job, given[1])
             /\ Cardinality(LiveWorkers) = spawned_count)

\* A pool of at most two threads, one at first, after two calls: the first
\* spawned the second thread, the second spawned none, both jobs are running.
C22_Witness ==
    /\ given = <<2, 1>>
    /\ resize_log = << >>
    /\ h_pc[1] = "idle"
    /\ next_job = 2
    /\ spawned_count = 2
    /\ active_count = 2

\* C23: dropping the last handle discards no queued work: recv fails only on
\* an empty channel, so a worker leaves through the closed channel only when
\* nothing is queued; no job sent before the drop stays in the channel or in
\* a worker's hands for ever; and every thread, a replacement spawned by a
\* Sentinel after the drop included, ends in the end.
C23_DropKeepsQueuedWork ==
    /\ [][\A w \in Slots : Leaves(w, "recv") =>
            IF queue = << >>
            THEN LiveHandles = {} /\ MovesTo(w, "exit") /\ UNCHANGED w_job
            ELSE MovesTo(w, "begin") /\ w_job'[w] = Head(queue)]_vars
    /\ \A j \in LiveJobs : []<>(LiveHandles # {} \/ ~Pending(j))
    /\ <>[](LiveHandles = {} => LiveWorkers = {})

====
